---------------------------- MODULE Spec2Model ----------------------------
(***************************************************************************)
(* The capybara CRUD service in its two variants: the in-memory variant    *)
(* (src/app.js, a module-level array) and the relational variant           *)
(* (src/unnamed/part_000, one SQL statement per request).                  *)
(*                                                                         *)
(* Spec      one request handled per step (every handler of the in-memory  *)
(*           variant is one synchronous callback; every handler of the     *)
(*           relational variant issues exactly one SQL statement), for     *)
(*           either variant.                                               *)
(* SpecConc  the in-memory variant with requests in flight on several      *)
(*           connections: a request arrives, waits for its body to be      *)
(*           parsed, and its handler then runs to completion.              *)
(***************************************************************************)
EXTENDS Integers, Sequences, FiniteSets, TLC

(* ----------------------------- bounds --------------------------------- *)
\* The longest in-memory collection a create request may still extend.
MaxLen == 3
\* The largest value the relational table's id sequence may still hand out.
MaxSerial == 2
\* The number of client connections of SpecConc, one request each.
MaxConn == 3

VARIABLES
    variant,    \* "memory" (src/app.js) or "relational" (src/unnamed/part_000)
    capybaras,  \* app.js:13  the in-memory store, a list of {id, name}
    table,      \* the rows of table capybara (relational variant)
    serial,     \* the last value handed out by the table's id sequence
    last,       \* the request handled last, with its response
    assigned,   \* history: the ids answered by 201 responses so far
    conns       \* SpecConc: each connection's request and response

vars == <<variant, capybaras, table, serial, last, assigned, conns>>

(* ------------------------- JSON values -------------------------------- *)
\* The value of req.body.name: absent, null or a string.
Undefined == [t |-> "undefined", v |-> ""]
Null == [t |-> "null", v |-> ""]
Str(s) == [t |-> "string", v |-> s]

\* A presence test that only asks whether the body has a name at all.
NotUndefined(x) == x.t # "undefined"
\* `!name` is true for undefined, null and the empty string.
Truthy(x) == x.t = "string" /\ x.v # ""

\* The names a request body may carry.
BodyNames == {Undefined, Null, Str(""), Str("Fluffy"), Str("Chonky")}

(* --------------------------- parseInt --------------------------------- *)
\* A path parameter is a sequence of characters.
Digits == <<"0", "1", "2", "3", "4", "5", "6", "7", "8", "9">>
IsDigit(ch) == \E d \in 1..10 : Digits[d] = ch
DigitVal(ch) == (CHOOSE d \in 1..10 : Digits[d] = ch) - 1

NaN == [nan |-> TRUE, n |-> 0]
Num(k) == [nan |-> FALSE, n |-> k]

RECURSIVE SkipSpace(_)
SkipSpace(s) == IF s # <<>> /\ Head(s) = " " THEN SkipSpace(Tail(s)) ELSE s

RECURSIVE LeadingDigits(_, _)
LeadingDigits(s, acc) ==
    IF s # <<>> /\ IsDigit(Head(s))
    THEN LeadingDigits(Tail(s), 10 * acc + DigitVal(Head(s)))
    ELSE acc

\* parseInt(req.params.id): leading white space, an optional sign, then the
\* longest run of digits; NaN when there is none.
ParseInt(s) ==
    LET t == SkipSpace(s)
        signed == t # <<>> /\ Head(t) \in {"-", "+"}
        u == IF signed THEN Tail(t) ELSE t
    IN  IF u = <<>> \/ ~IsDigit(Head(u)) THEN NaN
        ELSE IF signed /\ Head(t) = "-" THEN Num(0 - LeadingDigits(u, 0))
        ELSE Num(LeadingDigits(u, 0))

\* The decimal text of a natural number below 100, as a client writes an id
\* into the path.
ToParam(k) == IF k < 10 THEN <<Digits[k + 1]>>
              ELSE <<Digits[(k \div 10) + 1], Digits[(k % 10) + 1]>>

\* The path parameters requests carry: every id the store can hold, one
\* beyond, zero, and texts that are not plain numbers.
IdParams ==
    {ToParam(k) : k \in 0..(MaxLen + 1)}
        \cup {<<"x">>, <<"2", "x">>, <<" ", "1">>, <<"-", "1">>}

\* c.id === parseInt(...): NaN equals nothing.
IdIs(c, p) == ~p.nan /\ c.id = p.n

(* --------------------------- responses -------------------------------- *)
NoBody == [kind |-> "empty", id |-> 0, name |-> Undefined, text |-> "", list |-> <<>>]
One(c) == [NoBody EXCEPT !.kind = "capybara", !.id = c.id, !.name = c.name]
Many(cs) == [NoBody EXCEPT !.kind = "list", !.list = cs]
Message(m) == [NoBody EXCEPT !.kind = "message", !.text = m]
Error(m) == [NoBody EXCEPT !.kind = "error", !.text = m]

Response(st, b) == [status |-> st, body |-> b]
NotFound == Response(404, Message("Capybara not found"))
NameRequired == Response(400, Message("Name is required"))
StorageError == Response(500, Error("storage"))

(* ------------------------ in-memory variant --------------------------- *)
\* capybaras.findIndex(c => c.id === id): the first match, 0 for none
\* (the code's -1).
FindIndex(cs, p) ==
    IF \E i \in 1..Len(cs) : IdIs(cs[i], p)
    THEN CHOOSE i \in 1..Len(cs) :
            IdIs(cs[i], p) /\ \A j \in 1..(i - 1) : ~IdIs(cs[j], p)
    ELSE 0

\* { id: capybaras.length + 1, name }
NewCapybara(cs, nm) == [id |-> Len(cs) + 1, name |-> nm]

\* capybaras.concat(capybara) in place of push: the store is left as it was.
Concat(cs, c) == cs
\* capybaras.push(capybara)
Push(cs, c) == Append(cs, c)

\* capybaras.splice(index) without the count: everything from index on goes.
SpliceToEnd(cs, i) == SubSeq(cs, 1, i - 1)
\* capybaras.splice(index, 1)
Splice(cs, i) == [k \in 1..(Len(cs) - 1) |-> IF k < i THEN cs[k] ELSE cs[k + 1]]

\* capybara.name = name, on the element found
SetName(cs, i, nm) == [cs EXCEPT ![i].name = nm]

\* Each handler: the store it leaves and the response it sends.
Outcome(cs, r) == [store |-> cs, res |-> r]

MemGetCapybaras(cs) == Outcome(cs, Response(200, Many(cs)))

MemGetCapybara(cs, p) ==
    LET i == FindIndex(cs, p)
    IN  IF i = 0 THEN Outcome(cs, NotFound)
        ELSE Outcome(cs, Response(200, One(cs[i])))

MemPostCapybara(cs, nm) ==
    IF ~Truthy(nm) THEN Outcome(cs, NameRequired)
    ELSE LET c == NewCapybara(cs, nm)
         IN  Outcome(Push(cs, c), Response(201, One(c)))

\* The update handler with the name checked before the lookup.
MemPutNameFirst(cs, p, nm) ==
    LET i == FindIndex(cs, p)
    IN  IF ~Truthy(nm) THEN Outcome(cs, NameRequired)
        ELSE IF i = 0 THEN Outcome(cs, NotFound)
        ELSE Outcome(SetName(cs, i, nm), Response(200, One(SetName(cs, i, nm)[i])))

\* The update handler without its name check.
MemPutUnchecked(cs, p, nm) ==
    LET i == FindIndex(cs, p)
    IN  IF i = 0 THEN Outcome(cs, NotFound)
        ELSE Outcome(SetName(cs, i, nm), Response(200, One(SetName(cs, i, nm)[i])))

MemPutCapybara(cs, p, nm) ==
    LET i == FindIndex(cs, p)
    IN  IF i = 0 THEN Outcome(cs, NotFound)
        ELSE IF ~Truthy(nm) THEN Outcome(cs, NameRequired)
        ELSE Outcome(SetName(cs, i, nm), Response(200, One(SetName(cs, i, nm)[i])))

MemDeleteCapybara(cs, p) ==
    LET i == FindIndex(cs, p)
    IN  IF i = 0 THEN Outcome(cs, NotFound)
        ELSE Outcome(Splice(cs, i), Response(204, NoBody))

\* The route table of the in-memory variant: the handler of a request.
MemHandle(cs, req) ==
    CASE req.op = "GETALL" -> MemGetCapybaras(cs)
      [] req.op = "GET" -> MemGetCapybara(cs, ParseInt(req.param))
      [] req.op = "POST" -> MemPostCapybara(cs, req.name)
      [] req.op = "PUT" -> MemPutCapybara(cs, ParseInt(req.param), req.name)
      [] req.op = "DELETE" -> MemDeleteCapybara(cs, ParseInt(req.param))

(* ------------------------ relational variant -------------------------- *)
\* ORDER BY id: the rows as a sequence, smallest id first.
RECURSIVE OrderById(_)
OrderById(rows) ==
    IF rows = {} THEN <<>>
    ELSE LET r == CHOOSE x \in rows : \A y \in rows : x.id <= y.id
         IN  <<r>> \o OrderById(rows \ {r})

\* WHERE id = $1
WhereId(rows, p) == {r \in rows : IdIs(r, p)}

\* INSERT INTO capybara (name) VALUES ($1) RETURNING *: the id comes from
\* the table's sequence.
InsertRow(s, nm) == [id |-> s + 1, name |-> nm]

\* UPDATE capybara SET name = $1 WHERE id = $2
UpdateRows(rows, p, nm) ==
    {IF IdIs(r, p) THEN [r EXCEPT !.name = nm] ELSE r : r \in rows}

DbOutcome(rows, s, r) == [rows |-> rows, serial |-> s, res |-> r]

\* In each handler `fault` says that pool.query threw.
DbGetCapybaras(rows, s, fault) ==
    IF fault THEN DbOutcome(rows, s, StorageError)
    ELSE DbOutcome(rows, s, Response(200, Many(OrderById(rows))))

DbGetCapybara(rows, s, p, fault) ==
    IF fault THEN DbOutcome(rows, s, StorageError)
    ELSE IF WhereId(rows, p) = {} THEN DbOutcome(rows, s, NotFound)
    ELSE DbOutcome(rows, s, Response(200, One(OrderById(WhereId(rows, p))[1])))

DbPostCapybara(rows, s, nm, fault) ==
    IF ~Truthy(nm) THEN DbOutcome(rows, s, NameRequired)
    ELSE IF fault THEN DbOutcome(rows, s, StorageError)
    ELSE DbOutcome(rows \cup {InsertRow(s, nm)}, s + 1,
                   Response(201, One(InsertRow(s, nm))))

DbPutCapybara(rows, s, p, nm, fault) ==
    IF ~Truthy(nm) THEN DbOutcome(rows, s, NameRequired)
    ELSE IF fault THEN DbOutcome(rows, s, StorageError)
    ELSE IF WhereId(rows, p) = {} THEN DbOutcome(rows, s, NotFound)
    ELSE DbOutcome(UpdateRows(rows, p, nm), s,
                   Response(200, One(OrderById(WhereId(UpdateRows(rows, p, nm), p))[1])))

DbDeleteCapybara(rows, s, p, fault) ==
    IF fault THEN DbOutcome(rows, s, StorageError)
    ELSE IF WhereId(rows, p) = {} THEN DbOutcome(rows, s, NotFound)
    ELSE DbOutcome(rows \ WhereId(rows, p), s, Response(204, NoBody))

(* ------------------------------ state --------------------------------- *)
NoRequest == [op |-> "none", id |-> NaN, name |-> Undefined,
              status |-> 0, body |-> NoBody]

\* What a handled request leaves in `last`.
Handled(op, p, nm, res) ==
    [op |-> op, id |-> p, name |-> nm, status |-> res.status, body |-> res.body]

\* The ids answered by 201 responses, after one more response.
Assigned(res) ==
    IF res.status = 201 THEN assigned \cup {res.body.id} ELSE assigned

IdleConn == [st |-> "idle", req |-> [op |-> "none", param |-> <<>>, name |-> Undefined],
             res |-> Response(0, NoBody), with |-> {}]

Conns == 1..MaxConn

Init ==
    /\ variant \in {"memory", "relational"}
    /\ capybaras = <<>>
    /\ table = {}
    /\ serial = 0
    /\ last = NoRequest
    /\ assigned = {}
    /\ conns = [c \in Conns |-> IdleConn]

\* One request of the in-memory variant, handled.
MemStep(op, p, nm, o) ==
    /\ variant = "memory"
    /\ Len(o.store) <= MaxLen
    /\ capybaras' = o.store
    /\ last' = Handled(op, p, nm, o.res)
    /\ assigned' = Assigned(o.res)
    /\ UNCHANGED <<variant, table, serial, conns>>

GetCapybaras == MemStep("GETALL", NaN, Undefined, MemGetCapybaras(capybaras))

GetCapybara ==
    \E s \in IdParams :
        MemStep("GET", ParseInt(s), Undefined, MemGetCapybara(capybaras, ParseInt(s)))

PostCapybara ==
    \E nm \in BodyNames :
        MemStep("POST", NaN, nm, MemPostCapybara(capybaras, nm))

PutCapybara ==
    \E s \in IdParams, nm \in BodyNames :
        MemStep("PUT", ParseInt(s), nm, MemPutCapybara(capybaras, ParseInt(s), nm))

DeleteCapybara ==
    \E s \in IdParams :
        MemStep("DELETE", ParseInt(s), Undefined,
                MemDeleteCapybara(capybaras, ParseInt(s)))

\* One request of the relational variant, handled.
DbStep(op, p, nm, o) ==
    /\ variant = "relational"
    /\ o.serial <= MaxSerial
    /\ table' = o.rows
    /\ serial' = o.serial
    /\ last' = Handled(op, p, nm, o.res)
    /\ assigned' = Assigned(o.res)
    /\ UNCHANGED <<variant, capybaras, conns>>

DbGetAll ==
    \E fault \in BOOLEAN :
        DbStep("GETALL", NaN, Undefined, DbGetCapybaras(table, serial, fault))

DbGetOne ==
    \E s \in IdParams, fault \in BOOLEAN :
        DbStep("GET", ParseInt(s), Undefined,
               DbGetCapybara(table, serial, ParseInt(s), fault))

DbPost ==
    \E nm \in BodyNames, fault \in BOOLEAN :
        DbStep("POST", NaN, nm, DbPostCapybara(table, serial, nm, fault))

DbPut ==
    \E s \in IdParams, nm \in BodyNames, fault \in BOOLEAN :
        DbStep("PUT", ParseInt(s), nm,
               DbPutCapybara(table, serial, ParseInt(s), nm, fault))

DbDelete ==
    \E s \in IdParams, fault \in BOOLEAN :
        DbStep("DELETE", ParseInt(s), Undefined,
               DbDeleteCapybara(table, serial, ParseInt(s), fault))

Next ==
    \/ GetCapybaras
    \/ GetCapybara
    \/ PostCapybara
    \/ PutCapybara
    \/ DeleteCapybara
    \/ DbGetAll
    \/ DbGetOne
    \/ DbPost
    \/ DbPut
    \/ DbDelete

Spec == Init /\ [][Next]_vars

(* ------------------- requests in flight (SpecConc) -------------------- *)
\* The requests the clients of SpecConc send.
ConcRequests ==
    {[op |-> "GETALL", param |-> <<>>, name |-> Undefined]}
        \cup {[op |-> o, param |-> ToParam(1), name |-> Undefined] : o \in {"GET", "DELETE"}}
        \cup {[op |-> "POST", param |-> <<>>, name |-> nm] : nm \in {Str(""), Str("Fluffy")}}
        \cup {[op |-> "PUT", param |-> ToParam(1), name |-> Str("Chonky")]}

InitConc ==
    /\ variant = "memory"
    /\ capybaras = <<>>
    /\ table = {}
    /\ serial = 0
    /\ last = NoRequest
    /\ assigned = {}
    /\ conns = [c \in Conns |-> IdleConn]

\* A request arrives on an idle connection; express.json() reads its body
\* before the route's handler is called.
Receive ==
    \E c \in Conns, req \in ConcRequests :
        /\ conns[c].st = "idle"
        /\ conns' = [conns EXCEPT ![c] = [IdleConn EXCEPT !.st = "pending", !.req = req]]
        /\ UNCHANGED <<variant, capybaras, table, serial, last, assigned>>

\* The handler of a pending request runs, from its first line to its
\* response, as one callback of the event loop. `with` keeps the connections
\* whose requests were in flight at that moment.
Handle ==
    \E c \in Conns :
        /\ conns[c].st = "pending"
        /\ LET req == conns[c].req
               o == MemHandle(capybaras, req)
               p == IF req.param = <<>> THEN NaN ELSE ParseInt(req.param)
           IN  /\ Len(o.store) <= MaxLen
               /\ capybaras' = o.store
               /\ last' = Handled(req.op, p, req.name, o.res)
               /\ assigned' = Assigned(o.res)
               /\ conns' = [conns EXCEPT ![c] =
                      [st |-> "done", req |-> req, res |-> o.res,
                       with |-> {d \in Conns \ {c} : conns[d].st = "pending"}]]
        /\ UNCHANGED <<variant, table, serial>>

NextConc ==
    \/ Receive
    \/ Handle

SpecConc == InitConc /\ [][NextConc]_vars

(* ============================== claims ================================ *)
InMemory == variant = "memory"
Relational == variant = "relational"

UniqueIds(cs) == \A i, j \in 1..Len(cs) : i # j => cs[i].id # cs[j].id
StrictlyAscending(cs) == \A i \in 1..(Len(cs) - 1) : cs[i].id < cs[i + 1].id

\* The step just taken handled a request `op`, and answered `st`.
Answered(op, st) == last'.op = op /\ last'.status = st

\* C1: in the in-memory variant no two stored records have the same id.
C1_UniqueIds == InMemory => UniqueIds(capybaras)

\* C2: in the in-memory variant a create request is never answered with an
\* id that an earlier create request was answered with.
C2_NoIdReuse ==
    [][(InMemory /\ Answered("POST", 201) /\ Len(capybaras') = Len(capybaras) + 1)
          => last'.body.id \notin assigned]_vars

\* C3: in the in-memory variant, a create request answered 201 with id i and
\* followed at once by GET /capybaras/i is answered 200 with the posted name.
C3_PostThenGet ==
    [][(InMemory /\ last.op = "POST" /\ last.status = 201
            /\ last'.op = "GET" /\ last'.id = Num(last.body.id))
          => (last'.status = 200 /\ last'.body.kind = "capybara"
                /\ last'.body.name = last.name)]_vars

\* C4: in the in-memory variant, a delete request answered 204 for id i and
\* followed at once by GET /capybaras/i is answered 404.
C4_DeleteThenGet ==
    [][(InMemory /\ last.op = "DELETE" /\ last.status = 204
            /\ last'.op = "GET" /\ last'.id = last.id)
          => last'.status = 404]_vars

\* The update request just handled named an id no stored record had.
PutOfAbsentId ==
    /\ last'.op = "PUT"
    /\ InMemory => FindIndex(capybaras, last'.id) = 0
    /\ Relational => WhereId(table, last'.id) = {}

\* C5 as claimed: in both variants an update request for an id no stored
\* record has is answered 404 whatever its body (a storage fault aside).
C5_PutAbsentIs404 ==
    [][(PutOfAbsentId /\ last'.status # 500) => last'.status = 404]_vars

\* C5 as amended: an update request for an id no stored record has is
\* answered 404 whatever its body in the in-memory variant; in the relational
\* variant it is answered 400 "Name is required" when the name is missing or
\* empty, and otherwise 404, or 500 when the query fails.
C5_PutAbsent ==
    [][PutOfAbsentId =>
          /\ InMemory => last'.status = 404
          /\ (Relational /\ last'.name \in {Undefined, Null, Str("")})
                => (last'.status = 400 /\ last'.body = Message("Name is required"))
          /\ (Relational /\ last'.name \notin {Undefined, Null, Str("")})
                => last'.status \in {404, 500}]_vars

C5_Witness ==
    /\ Relational
    /\ last.op = "PUT" /\ last.status = 400
    /\ table # {} /\ WhereId(table, last.id) = {}

\* C6: GET /capybaras answers the records in strictly ascending order of id,
\* and the in-memory variant's stored list is itself in that order.
C6_ListAscending ==
    /\ (last.op = "GETALL" /\ last.status = 200) => StrictlyAscending(last.body.list)
    /\ InMemory => StrictlyAscending(capybaras)

\* C7: a create request whose body has no name, or the empty string as name,
\* is answered 400 "Name is required" and leaves the stored collection as it
\* was, so GET /capybaras lists as many records after it as before.
C7_PostWithoutName ==
    [][(last'.op = "POST" /\ last'.name \in {Undefined, Str("")}) =>
          /\ last'.status = 400
          /\ last'.body = Message("Name is required")
          /\ capybaras' = capybaras
          /\ table' = table
          /\ Len(MemGetCapybaras(capybaras').res.body.list)
                = Len(MemGetCapybaras(capybaras).res.body.list)
          /\ Len(DbGetCapybaras(table', serial', FALSE).res.body.list)
                = Len(DbGetCapybaras(table, serial, FALSE).res.body.list)]_vars

C7_Witness ==
    /\ last.op = "POST" /\ last.name = Str("") /\ last.status = 400
    /\ capybaras # <<>> \/ table # {}

\* C8: in the in-memory variant every stored record has a name that is
\* present and not empty.
C8_NamesNonEmpty ==
    InMemory => \A i \in 1..Len(capybaras) :
                    capybaras[i].name.t = "string" /\ capybaras[i].name.v # ""

C8_Witness ==
    /\ InMemory
    /\ last.op = "PUT" /\ last.status = 200
    /\ Len(capybaras) >= 2

(* ---- C9, under SpecConc ---- *)
Created(c) ==
    conns[c].st = "done" /\ conns[c].req.op = "POST" /\ conns[c].res.status = 201

\* The requests of c and d were in flight at the same time.
Concurrent(c, d) == d \in conns[c].with \/ c \in conns[d].with

NoDelete ==
    \A c \in Conns : ~(conns[c].st = "done" /\ conns[c].req.op = "DELETE")

\* C9 as claimed: with no delete involved, two create requests in flight at
\* the same time observe the same collection length and are answered with
\* the same id, which leaves two records of equal id.
C9_ConcurrentCreatesCollide ==
    NoDelete => \A c, d \in Conns :
        (c # d /\ Created(c) /\ Created(d) /\ Concurrent(c, d))
            => (conns[c].res.body.id = conns[d].res.body.id /\ ~UniqueIds(capybaras))

\* C9 as amended: with no delete involved, create requests are answered with
\* pairwise different ids however they overlap in flight, and the stored
\* record at position i has id i.
C9_CreatesDistinct ==
    NoDelete =>
        /\ \A c, d \in Conns :
              (c # d /\ Created(c) /\ Created(d))
                  => conns[c].res.body.id # conns[d].res.body.id
        /\ \A i \in 1..Len(capybaras) : capybaras[i].id = i

C9_Witness ==
    /\ NoDelete
    /\ \E c, d \in Conns : c # d /\ Created(c) /\ Created(d) /\ Concurrent(c, d)

\* C10: in the in-memory variant a stored record changes only through an
\* update request answered 200 for its id, which replaces its name and
\* nothing else, and goes away only through a delete request answered 204 for
\* its id; a GET request, and a request answered 400 or 404, leaves the whole
\* collection as it was.
C10_Frame ==
    [][InMemory =>
          /\ (last'.op \in {"GETALL", "GET"} \/ last'.status \in {400, 404})
                => capybaras' = capybaras
          /\ Answered("POST", 201) =>
                /\ Len(capybaras') = Len(capybaras) + 1
                /\ \A j \in 1..Len(capybaras) : capybaras'[j] = capybaras[j]
          /\ Answered("PUT", 200) =>
                \E k \in 1..Len(capybaras) :
                    /\ IdIs(capybaras[k], last'.id)
                    /\ Len(capybaras') = Len(capybaras)
                    /\ capybaras'[k] = [id |-> capybaras[k].id, name |-> last'.name]
                    /\ \A j \in 1..Len(capybaras) : j # k => capybaras'[j] = capybaras[j]
          /\ Answered("DELETE", 204) =>
                \E k \in 1..Len(capybaras) :
                    /\ IdIs(capybaras[k], last'.id)
                    /\ Len(capybaras') = Len(capybaras) - 1
                    /\ \A j \in 1..(k - 1) : capybaras'[j] = capybaras[j]
                    /\ \A j \in k..Len(capybaras') : capybaras'[j] = capybaras[j + 1]
          /\ capybaras' # capybaras =>
                (Answered("POST", 201) \/ Answered("PUT", 200) \/ Answered("DELETE", 204))]_vars

C10_Witness ==
    /\ InMemory
    /\ last.op = "DELETE" /\ last.status = 204
    /\ Len(capybaras) >= 2

=============================================================================
